---- MODULE Spec2Model ----
(***************************************************************************)
(* HagarlaaweNewsBot: the polling loop of src/main.py.                     *)
(*                                                                         *)
(* main() runs fetch_and_post() for ever, sleeping between two runs.  One  *)
(* run loads the two cursor files, reads every configured feed, keeps the  *)
(* entries the cursor admits, sorts them, and then filters, translates and *)
(* posts them one at a time, writing the link file after each posted entry *)
(* and the time file once at the end.                                      *)
(***************************************************************************)
EXTENDS Integers, Sequences, FiniteSets, TLC

VARIABLES
    linkFile,          \* LAST_LINK_FILE: <<>> while there is no file, else <<its text>>,
                       \* or <<its text, Unreadable>> while reading it raises IOError
    timeFile,          \* LAST_TIME_FILE: <<>> while there is no file, else <<the number in it>>,
                       \* or <<a number, Unreadable>> while its text is none float() accepts
    now,               \* the wall clock (UTC), in the units of published_parsed: one unit
                       \* is the time main sleeps between two cycles
    feeds,             \* what feedparser.parse returned for each url of RSS_URLS this cycle
    pc,                \* where main() is: "sleep", "loop", "returned", "raised"
    last_link,         \* fetch_and_post local
    last_time,         \* fetch_and_post local
    new_items,         \* fetch_and_post local
    idx,               \* position of the for loop of line 376 in new_items
    latest_timestamp,  \* fetch_and_post local
    processed,         \* what this cycle asked of the translator and of the sink, in order:
                       \* the entry, the translation, whether send_message returned, the
                       \* clock when the entry passed the filter and when it was sent
    posted,            \* per link, how many send_message calls for it returned without error
    cut,               \* the links sent by cycles that ended inside the loop of line 376
    reply,             \* analyze_sentiment: what the completion call gave
    sentiment,         \* analyze_sentiment: <<>>, or <<the tuple it returned>>
    db                 \* session_analytics: the rows of news_items, in order of insertion

vars == <<linkFile, timeFile, now, feeds, pc, last_link, last_time,
          new_items, idx, latest_timestamp, processed, posted,
          cut, reply, sentiment, db>>

\* What the polling loop never touches.
analytics == <<reply, sentiment, db>>

-----------------------------------------------------------------------------
(* Bounds of the model *)

MaxNow == 2          \* the clock stops here; every cycle starts at a later clock value
MaxFeedLen == 2      \* entries one source lists at a time

\* The configured sources (RTT_RSS_FEED_URL, split at the commas).
RSS_URLS == <<"feed1", "feed2">>

\* time.mktime reads a struct_time as local time: what it adds to a UTC
\* published_parsed on this host, in clock units.
UtcOffset == 1

\* asyncio.sleep(60) of main
SLEEP_SECONDS == 60

\* The budgets of a cluster buffer.
timeBudget == 300
sizeBudget == 10

None == "None"
NoFile == <<>>

isfile(f) == f # NoFile

\* The mark of a file whose read raises inside the try of a load function.
Unreadable == "unreadable"

readable(f) == Len(f) = 1

-----------------------------------------------------------------------------
(* Feed entries.  published_parsed is absent from an entry that carries no  *)
(* date, as in feedparser.                                                  *)

Entries ==
    { [link |-> "a", title |-> "CPI rises", published_parsed |-> 1],
      [link |-> "b", title |-> "Powell speaks", published_parsed |-> 2],
      [link |-> "c", title |-> "gdp slows"],
      [link |-> "d", title |-> "fed holds rates", published_parsed |-> 2] }

\* Headlines for the master filter: a blocked speaker next to a macro keyword
\* and next to Powell, macro keywords that hold "fed", a headline with no
\* keyword at all, two that pass, and one that holds "fed" next to Powell.
TitleEntries ==
    { [link |-> "t1", title |-> "Daly: CPI cooling", published_parsed |-> 1],
      [link |-> "t2", title |-> "Powell and Daly speak", published_parsed |-> 1],
      [link |-> "t3", title |-> "Federal Reserve statement", published_parsed |-> 1],
      [link |-> "t4", title |-> "Sports results", published_parsed |-> 1],
      [link |-> "t5", title |-> "Jerome Powell testifies", published_parsed |-> 1],
      [link |-> "t6", title |-> "Inflation data due", published_parsed |-> 1],
      [link |-> "t7", title |-> "Fed chair Powell speaks", published_parsed |-> 1] }

AllEntries == Entries \cup TitleEntries

Links == {e.link : e \in AllEntries}

has(e, k) == k \in DOMAIN e

get(e, k) == IF has(e, k) THEN e[k] ELSE None

RECURSIVE SeqsOver(_, _)
SeqsOver(S, n) ==
    IF n = 0 THEN {<<>>}
    ELSE LET shorter == SeqsOver(S, n - 1)
         IN  shorter \cup {Append(s, x) : s \in {t \in shorter : Len(t) = n - 1}, x \in S}

Range(s) == {s[i] : i \in 1..Len(s)}

\* One source's list: entries with pairwise different links.
FeedLists == {s \in SeqsOver(Entries, MaxFeedLen) : Cardinality(Range(s)) = Len(s)}

TitleFeedLists == {s \in SeqsOver(TitleEntries, MaxFeedLen) : Cardinality(Range(s)) = Len(s)}

Sources == 1..Len(RSS_URLS)

\* What the sources may answer in one cycle.
Answers == [Sources -> FeedLists]

\* The first source lists headlines of TitleEntries, the others list nothing.
TitleAnswers ==
    {[u \in Sources |-> IF u = 1 THEN l ELSE <<>>] : l \in TitleFeedLists}

-----------------------------------------------------------------------------
(* Persistent storage *)

RECURSIVE lstrip(_)
lstrip(s) == IF Len(s) > 0 /\ SubSeq(s, 1, 1) = " " THEN lstrip(SubSeq(s, 2, Len(s))) ELSE s

RECURSIVE rstrip(_)
rstrip(s) ==
    IF Len(s) > 0 /\ SubSeq(s, Len(s), Len(s)) = " " THEN rstrip(SubSeq(s, 1, Len(s) - 1)) ELSE s

strip(s) == rstrip(lstrip(s))

load_last_posted_link ==
    IF isfile(linkFile) /\ readable(linkFile)
    THEN IF strip(linkFile[1]) = "" THEN None ELSE strip(linkFile[1])
    ELSE None

save_last_posted_link(link) == <<link>>

load_last_time == IF isfile(timeFile) /\ readable(timeFile) THEN timeFile[1] ELSE 0

save_last_time(timestamp) == <<timestamp>>

-----------------------------------------------------------------------------
(* High impact filtering *)

POWELL_ONLY == <<"jerome powell", "powell", "fed chair powell">>

BLOCKED_SPEAKERS ==
    << "de guindos", "makhlouf", "sleijpen", "sliejpen", "merz",
       "mann", "wells", "he lifeng",
       "jefferson", "harker", "barkin", "goolsbee", "mester",
       "logan", "cook", "daly", "collins", "barr", "kashkari" >>

HIGH_IMPACT_MACRO ==
    << "cpi", "inflation", "pce", "core pce", "core cpi",
       "nfp", "nonfarm", "unemployment", "jobless claims",
       "gdp", "retail sales", "ppi",
       "pmi", "ism",
       "yield", "yields", "treasury", "risk-off", "risk-on",
       "fomc", "fed policy", "federal reserve",
       "market crash", "selloff", "volatility",
       "white house", "biden", "madaxweyne donald trump" >>

UpperCase == "ABCDEFGHIJKLMNOPQRSTUVWXYZ"
LowerCase == "abcdefghijklmnopqrstuvwxyz"

lowerChar(c) ==
    IF \E i \in 1..Len(UpperCase) : SubSeq(UpperCase, i, i) = c
    THEN LET i == CHOOSE j \in 1..Len(UpperCase) : SubSeq(UpperCase, j, j) = c
         IN  SubSeq(LowerCase, i, i)
    ELSE c

RECURSIVE lower(_)
lower(s) == IF s = "" THEN "" ELSE lowerChar(SubSeq(s, 1, 1)) \o lower(SubSeq(s, 2, Len(s)))

\* k in t, on strings
isSubstring(k, t) ==
    \E i \in 1..(Len(t) - Len(k) + 1) : SubSeq(t, i, i + Len(k) - 1) = k

contains(text, keywords) ==
    LET t == lower(text)
    IN  \E j \in 1..Len(keywords) : isSubstring(lower(keywords[j]), t)

is_powell(text) == contains(text, POWELL_ONLY)

is_blocked(text) == contains(text, BLOCKED_SPEAKERS)

is_high_macro(text) == contains(text, HIGH_IMPACT_MACRO)

-----------------------------------------------------------------------------
(* Posting loop: collecting the new items (lines 350-374) *)

\* time.mktime of a published_parsed value
mktime(pub) == pub + UtcOffset

\* scan with the watermark test of line 363 written < in place of <=.
RECURSIVE scan_strict(_, _, _, _)
scan_strict(entries, i, lastLink, lastTime) ==
    IF i > Len(entries) THEN <<>>
    ELSE LET e == entries[i]
         IN  IF get(e, "link") = lastLink
             THEN <<>>
             ELSE IF has(e, "published_parsed") /\ mktime(e.published_parsed) < lastTime
                  THEN scan_strict(entries, i + 1, lastLink, lastTime)
                  ELSE <<e>> \o scan_strict(entries, i + 1, lastLink, lastTime)

RECURSIVE scan_undated_as_zero(_, _, _, _)
scan_undated_as_zero(entries, i, lastLink, lastTime) ==
    IF i > Len(entries) THEN <<>>
    ELSE LET e == entries[i]
             ts == IF has(e, "published_parsed") THEN mktime(e.published_parsed) ELSE 0
         IN  IF get(e, "link") = lastLink
             THEN <<>>
             ELSE IF ts <= lastTime
                  THEN scan_undated_as_zero(entries, i + 1, lastLink, lastTime)
                  ELSE <<e>> \o scan_undated_as_zero(entries, i + 1, lastLink, lastTime)

RECURSIVE scan_link_only(_, _, _, _)
scan_link_only(entries, i, lastLink, lastTime) ==
    IF i > Len(entries) THEN <<>>
    ELSE LET e == entries[i]
         IN  IF get(e, "link") = lastLink
             THEN <<>>
             ELSE <<e>> \o scan_link_only(entries, i + 1, lastLink, lastTime)

\* The entries of one source that reach new_items: the inner for loop of
\* lines 357-366, from position i of the list on.
RECURSIVE scan(_, _, _, _)
scan(entries, i, lastLink, lastTime) ==
    IF i > Len(entries) THEN <<>>
    ELSE LET e == entries[i]
         IN  IF get(e, "link") = lastLink
             THEN <<>>
             ELSE IF has(e, "published_parsed") /\ mktime(e.published_parsed) <= lastTime
                  THEN scan(entries, i + 1, lastLink, lastTime)
                  ELSE <<e>> \o scan(entries, i + 1, lastLink, lastTime)

\* new_items after the outer for loop of line 354 has read the sources from u on.
RECURSIVE collect(_, _, _, _)
collect(fs, u, lastLink, lastTime) ==
    IF u > Len(fs) THEN <<>>
    ELSE scan(fs[u], 1, lastLink, lastTime) \o collect(fs, u + 1, lastLink, lastTime)

\* The key of line 368, time.gmtime() being read at clock value t.
sort_key(e, t) == IF has(e, "published_parsed") THEN e.published_parsed ELSE t

\* list.sort is stable: x goes behind every element whose key is not greater.
RECURSIVE insert_sorted(_, _, _)
insert_sorted(sorted, x, t) ==
    IF sorted # <<>> /\ sort_key(sorted[Len(sorted)], t) > sort_key(x, t)
    THEN Append(insert_sorted(SubSeq(sorted, 1, Len(sorted) - 1), x, t), sorted[Len(sorted)])
    ELSE Append(sorted, x)

\* new_items left in the order the sources were read.
unsorted_items(items, t) == items

RECURSIVE sort_items(_, _)
sort_items(items, t) ==
    IF items = <<>> THEN <<>>
    ELSE insert_sorted(sort_items(SubSeq(items, 1, Len(items) - 1), t), items[Len(items)], t)

\* latest_timestamp started from zero, not from the loaded watermark.
first_latest_zero(lastTime) == 0

\* line 374
first_latest(lastTime) == lastTime

\* The running timestamp kept as the minimum.
next_latest_min(latest, e) ==
    IF has(e, "published_parsed")
    THEN IF mktime(e.published_parsed) < latest THEN mktime(e.published_parsed) ELSE latest
    ELSE latest

\* lines 416-417
next_latest(latest, e) ==
    IF has(e, "published_parsed")
    THEN IF mktime(e.published_parsed) > latest THEN mktime(e.published_parsed) ELSE latest
    ELSE latest

-----------------------------------------------------------------------------
(* Posting loop: the master filter (lines 377-393) *)

title_of(e) == IF get(e, "title") = None THEN "" ELSE e.title

\* The filter with Powell taken before the blocked speakers.
approved_powell_first(e) ==
    LET t == lower(title_of(e))
    IN  \/ is_powell(t)
        \/ /\ ~is_blocked(t)
           /\ ~isSubstring("fed", t)
           /\ is_high_macro(t)

approved_without_fed_test(e) ==
    LET t == lower(title_of(e))
    IN  /\ ~is_blocked(t)
        /\ ~(~is_powell(t) /\ ~is_high_macro(t))

approved(e) ==
    LET t == lower(title_of(e))
    IN  /\ ~is_blocked(t)
        /\ ~(isSubstring("fed", t) /\ ~is_powell(t))
        /\ ~(~is_powell(t) /\ ~is_high_macro(t))

\* The verdict of the master filter on each entry of the model's feeds.
Approved == {e \in AllEntries : approved(e)}

\* translate_to_somali: the translation, or "" when the call raised
somali(text) == "so: " \o text

translate_to_somali(text, ok) == IF ok THEN somali(text) ELSE ""

-----------------------------------------------------------------------------
(* Sentiment: analyze_sentiment.  A text is a sequence of characters, a      *)
(* character being a one-character string, or the name of its code point    *)
(* for the two letters outside ASCII that the regular expressions of the    *)
(* function match without regard to case: U+017F (long s) and U+0131        *)
(* (dotless i).                                                             *)

LongS == "U+017F"
DotlessI == "U+0131"

chars(s) == [i \in 1..Len(s) |-> SubSeq(s, i, i)]

upperChar(c) ==
    IF \E i \in 1..Len(LowerCase) : SubSeq(LowerCase, i, i) = c
    THEN LET i == CHOOSE j \in 1..Len(LowerCase) : SubSeq(LowerCase, j, j) = c
         IN  SubSeq(UpperCase, i, i)
    ELSE c

\* What re.IGNORECASE compares two characters by.
fold(c) ==
    IF c = LongS THEN "s"
    ELSE IF c = DotlessI THEN "i"
    ELSE lowerChar(c)

\* str.upper and str.lower of one character: the long s and the dotless i
\* are lower-case letters, with S and I as their upper case.
char_upper(c) ==
    IF c = LongS THEN "S"
    ELSE IF c = DotlessI THEN "I"
    ELSE upperChar(c)

char_lower(c) == IF c \in {LongS, DotlessI} THEN c ELSE lowerChar(c)

\* str.capitalize
capitalize(t) ==
    [i \in 1..Len(t) |-> IF i = 1 THEN char_upper(t[i]) ELSE char_lower(t[i])]

isspace(c) == c \in {" ", "\n", "\t"}

RECURSIVE text_lstrip(_)
text_lstrip(t) == IF Len(t) > 0 /\ isspace(t[1]) THEN text_lstrip(Tail(t)) ELSE t

RECURSIVE text_rstrip(_)
text_rstrip(t) ==
    IF Len(t) > 0 /\ isspace(t[Len(t)]) THEN text_rstrip(SubSeq(t, 1, Len(t) - 1)) ELSE t

text_strip(t) == text_rstrip(text_lstrip(t))

\* word matches in text at position i; ic: re.IGNORECASE
match_at(word, text, i, ic) ==
    /\ i + Len(word) - 1 <= Len(text)
    /\ \A j \in 1..Len(word) :
         IF ic THEN fold(text[i + j - 1]) = fold(word[j]) ELSE text[i + j - 1] = word[j]

\* re.search(r"(w1|w2|...)", text, re.IGNORECASE): group(1) of the leftmost
\* match, the first alternative that matches there; <<>> for None.
search_words(words, text) ==
    LET hits == {i \in 1..Len(text) :
                    \E k \in 1..Len(words) : match_at(words[k], text, i, TRUE)}
    IN  IF hits = {} THEN <<>>
        ELSE LET i == CHOOSE h \in hits : \A g \in hits : h <= g
                 k == CHOOSE m \in 1..Len(words) :
                        /\ match_at(words[m], text, i, TRUE)
                        /\ \A n \in 1..(m - 1) : ~match_at(words[n], text, i, TRUE)
             IN  SubSeq(text, i, i + Len(words[k]) - 1)

DigitChars == "0123456789"

isdigit(c) == \E d \in 1..Len(DigitChars) : SubSeq(DigitChars, d, d) = c

digit_value(c) == (CHOOSE d \in 1..Len(DigitChars) : SubSeq(DigitChars, d, d) = c) - 1

\* int() of a text of digits
RECURSIVE int_of(_)
int_of(t) ==
    IF t = <<>> THEN 0
    ELSE int_of(SubSeq(t, 1, Len(t) - 1)) * Len(DigitChars) + digit_value(t[Len(t)])

\* The position behind the white space that starts at i.
RECURSIVE skip_space(_, _)
skip_space(text, i) ==
    IF i <= Len(text) /\ isspace(text[i]) THEN skip_space(text, i + 1) ELSE i

\* The digits that start at i, as many as there are.
RECURSIVE digits_from(_, _)
digits_from(text, i) ==
    IF i <= Len(text) /\ isdigit(text[i])
    THEN <<text[i]>> \o digits_from(text, i + 1)
    ELSE <<>>

\* re.search(r"Confidence:\s*(\d+)", text): group(1) of the leftmost match;
\* <<>> for None.
search_confidence(text) ==
    LET word == chars("Confidence:")
        hits == {i \in 1..Len(text) :
                    /\ match_at(word, text, i, FALSE)
                    /\ digits_from(text, skip_space(text, i + Len(word))) # <<>>}
    IN  IF hits = {} THEN <<>>
        ELSE LET i == CHOOSE h \in hits : \A g \in hits : h <= g
             IN  digits_from(text, skip_space(text, i + Len(word)))

min(a, b) == IF a <= b THEN a ELSE b

max(a, b) == IF a >= b THEN a ELSE b

ToneWords == <<chars("Bullish"), chars("Bearish"), chars("Neutral")>>

HorizonWords ==
    <<chars("Intraday"), chars("Short-term"), chars("Medium-term"), chars("Macro")>>

\* r: what the completion call gave, r.ok being FALSE when the try raised.
analyze_sentiment(r) ==
    IF ~r.ok
    THEN [tone |-> chars("Neutral"), horiz |-> chars("Unknown"), conf |-> 50]
    ELSE LET out == text_strip(r.content)
             tone == search_words(ToneWords, out)
             horiz == search_words(HorizonWords, out)
             conf == search_confidence(out)
         IN  [tone |-> IF tone # <<>> THEN capitalize(tone) ELSE chars("Neutral"),
              horiz |-> IF horiz # <<>> THEN capitalize(horiz) ELSE chars("Unknown"),
              conf |-> max(0, min(IF conf # <<>> THEN int_of(conf) ELSE 50, 100))]

\* Completions: a tone, a horizon and a confidence, each in several spellings
\* or left out.
ToneTexts ==
    { <<>>, chars("Bullish"), chars("BEARISH"), chars("neutral"),
      chars("Bulli") \o <<LongS>> \o chars("h"),
      chars("bear") \o <<DotlessI>> \o chars("sh") }

HorizonTexts ==
    { <<>>, chars("Intraday"), chars("short-term"), chars("MEDIUM-TERM"), chars("Macro"),
      chars("Med") \o <<DotlessI>> \o chars("um-term") }

ConfidenceTexts ==
    { <<>>, chars("Confidence: 0"), chars("Confidence: 85%"), chars("Confidence:100"),
      chars("Confidence: 250"), chars("confidence: 80"), chars("Confidence: -5"),
      chars("Confidence: high") }

Replies ==
    {[ok |-> FALSE, content |-> <<>>]} \cup
    {[ok |-> TRUE, content |-> chars(" ") \o t \o chars(", ") \o h \o chars(", ") \o c \o chars("\n")] :
        t \in ToneTexts, h \in HorizonTexts, c \in ConfidenceTexts}

-----------------------------------------------------------------------------
(* Session analytics: src/session_analytics.py.  A datetime is a day of     *)
(* January 2024, an hour and a minute.                                      *)

MaxRows == 2         \* rows save_news_item inserts in one run of the model

Hours == 0..23

DateTimes == [day : {1}, hour : Hours, minute : {0, 59}]

\* datetime.time(), and the order of two times
time_of(dt) == <<dt.hour, dt.minute>>

time_lt(a, b) == a[1] < b[1] \/ (a[1] = b[1] /\ a[2] < b[2])

time_le(a, b) == a = b \/ time_lt(a, b)

get_session_inclusive(dt_utc) ==
    LET t == time_of(dt_utc)
    IN  IF time_le(<<0, 0>>, t) /\ time_le(t, <<8, 0>>) THEN "Tokyo"
        ELSE IF time_le(<<8, 0>>, t) /\ time_le(t, <<16, 0>>) THEN "London"
        ELSE "New York"

get_session(dt_utc) ==
    LET t == time_of(dt_utc)
    IN  IF time_le(<<0, 0>>, t) /\ time_lt(t, <<8, 0>>) THEN "Tokyo"
        ELSE IF time_le(<<8, 0>>, t) /\ time_lt(t, <<16, 0>>) THEN "London"
        ELSE "New York"

\* Two digits for a number below 100.
two_digits(n) ==
    SubSeq(DigitChars, (n \div Len(DigitChars)) + 1, (n \div Len(DigitChars)) + 1)
        \o SubSeq(DigitChars, (n % Len(DigitChars)) + 1, (n % Len(DigitChars)) + 1)

\* datetime.isoformat(): YYYY-MM-DDTHH:MM:SS
isoformat(dt) ==
    "2024-01-" \o two_digits(dt.day) \o "T" \o two_digits(dt.hour)
        \o ":" \o two_digits(dt.minute) \o ":00"

\* datetime.fromisoformat of such a text (line 109)
fromisoformat(ts) ==
    [day |-> int_of(chars(SubSeq(ts, 9, 10))),
     hour |-> int_of(chars(SubSeq(ts, 12, 13))),
     minute |-> int_of(chars(SubSeq(ts, 15, 16)))]

-----------------------------------------------------------------------------
(* The state machine *)

Init ==
    /\ linkFile = NoFile
    /\ timeFile = NoFile
    /\ now = 0
    /\ feeds = <<>>
    /\ pc = "sleep"
    /\ last_link = None
    /\ last_time = 0
    /\ new_items = <<>>
    /\ idx = 0
    /\ latest_timestamp = 0
    /\ processed = <<>>
    /\ posted = [l \in Links |-> 0]
    /\ cut = {}
    /\ reply = <<>>
    /\ sentiment = <<>>
    /\ db = <<>>

\* The positions of processed whose send_message returned without error.
SentAt == {i \in 1..Len(processed) : processed[i].sent}

\* main awaits fetch_and_post and then the sleep before it loops: a cycle starts
\* from the sleep only.
cycle_may_start_in_loop == pc \in {"sleep", "loop"}

cycle_may_start == pc = "sleep"

AfterIteration_saving_each(latest) ==
    /\ latest_timestamp' = latest
    /\ idx' = idx + 1
    /\ timeFile' = save_last_time(latest)
    /\ pc' = IF idx = Len(new_items) THEN "returned" ELSE "loop"

\* What the end of one loop iteration leaves: the next iteration, or, behind the
\* last one, save_last_time (line 421) and the return.
AfterIteration(latest) ==
    /\ latest_timestamp' = latest
    /\ idx' = idx + 1
    /\ IF idx = Len(new_items)
       THEN /\ timeFile' = save_last_time(latest)
            /\ pc' = "returned"
       ELSE /\ timeFile' = timeFile
            /\ pc' = "loop"

\* main wakes up and fetch_and_post runs up to the for loop of line 376:
\* every source answers, with one of answers.
StartCycleOn(answers) ==
    /\ cycle_may_start
    /\ \E t \in (now + 1)..MaxNow, fs \in answers :
         LET ll == load_last_posted_link
             lt == load_last_time
             items == sort_items(collect(fs, 1, ll, lt), t)
         IN  /\ now' = t
             /\ feeds' = fs
             /\ last_link' = ll
             /\ last_time' = lt
             /\ new_items' = items
             /\ processed' = <<>>
             /\ IF items = <<>>
                THEN /\ pc' = "returned"
                     /\ UNCHANGED <<idx, latest_timestamp>>
                ELSE /\ pc' = "loop"
                     /\ idx' = 1
                     /\ latest_timestamp' = first_latest(lt)
    /\ UNCHANGED <<linkFile, timeFile, posted, cut, analytics>>

StartCycle == StartCycleOn(Answers)

StartCycleTitles == StartCycleOn(TitleAnswers)

\* feedparser.parse raises for source u: nothing catches it inside
\* fetch_and_post, it reaches the except of line 433.
FetchRaisesOn(answers) ==
    /\ cycle_may_start
    /\ \E t \in (now + 1)..MaxNow, fs \in answers, u \in Sources :
         LET ll == load_last_posted_link
             lt == load_last_time
         IN  /\ now' = t
             /\ feeds' = [s \in Sources |-> IF s < u THEN fs[s] ELSE <<>>]
             /\ last_link' = ll
             /\ last_time' = lt
             /\ new_items' = collect(SubSeq(fs, 1, u - 1), 1, ll, lt)
             /\ processed' = <<>>
             /\ pc' = "raised"
    /\ UNCHANGED <<linkFile, timeFile, idx, latest_timestamp, posted, cut, analytics>>

SkipItem_advancing ==
    /\ pc = "loop"
    /\ new_items[idx] \notin Approved
    /\ AfterIteration(next_latest(latest_timestamp, new_items[idx]))
    /\ UNCHANGED <<linkFile, now, feeds, last_link, last_time, new_items,
                   processed, posted, cut, analytics>>

FetchRaises == FetchRaisesOn(Answers)

FetchRaisesTitles == FetchRaisesOn(TitleAnswers)

\* One iteration that ends in a continue of the master filter.
SkipItem ==
    /\ pc = "loop"
    /\ new_items[idx] \notin Approved
    /\ AfterIteration(latest_timestamp)
    /\ UNCHANGED <<linkFile, now, feeds, last_link, last_time, new_items,
                   processed, posted, cut, analytics>>

\* One iteration for an approved headline: lines 398-419.
PostItem ==
    /\ pc = "loop"
    /\ new_items[idx] \in Approved
    /\ \E translated \in BOOLEAN, delivered \in BOOLEAN :
         LET e == new_items[idx]
             som == translate_to_somali(title_of(e), translated)
         IN  /\ processed' = Append(processed,
                                     [e |-> e, som |-> som, sent |-> delivered,
                                      opened |-> now, at |-> now])
             /\ posted' = IF delivered
                          THEN [posted EXCEPT ![e.link] = @ + 1]
                          ELSE posted
             /\ linkFile' = IF get(e, "link") \notin {None, ""}
                            THEN save_last_posted_link(e.link)
                            ELSE linkFile
             /\ AfterIteration(next_latest(latest_timestamp, e))
    /\ UNCHANGED <<now, feeds, last_link, last_time, new_items, cut, analytics>>

\* An iteration for an approved headline whose save_last_posted_link raises: the
\* file that could not be read cannot be opened for writing either, and the
\* exception leaves fetch_and_post after the message went to the sink.
SaveLinkRaises ==
    /\ pc = "loop"
    /\ new_items[idx] \in Approved
    /\ get(new_items[idx], "link") \notin {None, ""}
    /\ isfile(linkFile) /\ ~readable(linkFile)
    /\ \E translated \in BOOLEAN, delivered \in BOOLEAN :
         LET e == new_items[idx]
             som == translate_to_somali(title_of(e), translated)
         IN  /\ processed' = Append(processed,
                                     [e |-> e, som |-> som, sent |-> delivered,
                                      opened |-> now, at |-> now])
             /\ posted' = IF delivered
                          THEN [posted EXCEPT ![e.link] = @ + 1]
                          ELSE posted
             /\ cut' = cut \cup {processed[i].e.link : i \in SentAt}
                            \cup (IF delivered THEN {e.link} ELSE {})
    /\ pc' = "raised"
    /\ UNCHANGED <<linkFile, timeFile, now, feeds, last_link, last_time, new_items,
                   idx, latest_timestamp, analytics>>

\* The cycle ends at the await of line 419, after an iteration that sent its
\* message: the task is cancelled or the process is stopped and started again.
\* save_last_time (line 421) does not run.
CycleCutShort ==
    /\ pc = "loop"
    /\ SentAt # {}
    /\ cut' = cut \cup {processed[i].e.link : i \in SentAt}
    /\ pc' = "raised"
    /\ UNCHANGED <<linkFile, timeFile, now, feeds, last_link, last_time, new_items,
                   idx, latest_timestamp, processed, posted, analytics>>

Sleep_after_return_only ==
    /\ pc = "returned"
    /\ pc' = "sleep"
    /\ feeds' = <<>>
    /\ last_link' = None
    /\ last_time' = 0
    /\ new_items' = <<>>
    /\ idx' = 0
    /\ latest_timestamp' = 0
    /\ processed' = <<>>
    /\ UNCHANGED <<linkFile, timeFile, now, posted, cut, analytics>>

\* Lines 436-437: fetch_and_post is over, its locals are gone, main sleeps.
Sleep ==
    /\ pc \in {"returned", "raised"}
    /\ pc' = "sleep"
    /\ feeds' = <<>>
    /\ last_link' = None
    /\ last_time' = 0
    /\ new_items' = <<>>
    /\ idx' = 0
    /\ latest_timestamp' = 0
    /\ processed' = <<>>
    /\ UNCHANGED <<linkFile, timeFile, now, posted, cut, analytics>>

Next ==
    \/ StartCycle
    \/ FetchRaises
    \/ SkipItem
    \/ PostItem
    \/ Sleep

Spec == Init /\ [][Next]_vars

\* The polling loop in runs where no fetch raises: every cycle reaches its
\* return.
NextComplete ==
    \/ StartCycle
    \/ SkipItem
    \/ PostItem
    \/ Sleep

CompleteSpec == Init /\ [][NextComplete]_vars

\* The same loop fed with the headlines of TitleEntries.
NextTitles ==
    \/ StartCycleTitles
    \/ SkipItem
    \/ PostItem
    \/ Sleep

FilterSpec == Init /\ [][NextTitles]_vars

\* The process starts on the store an earlier run left after posting one entry,
\* with the link file, the time file or both unreadable.
StoreLeft == CHOOSE e \in Entries : e.title = "CPI rises"

InitStartup ==
    /\ \E lf \in {<<StoreLeft.link>>, <<StoreLeft.link, Unreadable>>},
          tf \in {<<mktime(StoreLeft.published_parsed)>>,
                  <<mktime(StoreLeft.published_parsed), Unreadable>>} :
         /\ ~readable(lf) \/ ~readable(tf)
         /\ linkFile = lf
         /\ timeFile = tf
    /\ now = 0
    /\ feeds = <<>>
    /\ pc = "sleep"
    /\ last_link = None
    /\ last_time = 0
    /\ new_items = <<>>
    /\ idx = 0
    /\ latest_timestamp = 0
    /\ processed = <<>>
    /\ posted = [l \in Links |-> 0]
    /\ cut = {}
    /\ reply = <<>>
    /\ sentiment = <<>>
    /\ db = <<>>

NextStartup ==
    \/ StartCycle
    \/ FetchRaises
    \/ SkipItem
    \/ PostItem
    \/ SaveLinkRaises
    \/ Sleep

StartupSpec == InitStartup /\ [][NextStartup]_vars

\* The polling loop with cycles that are cut short after a publication.
NextCut ==
    \/ StartCycle
    \/ FetchRaises
    \/ SkipItem
    \/ PostItem
    \/ CycleCutShort
    \/ Sleep

CutSpec == Init /\ [][NextCut]_vars

\* analyze_sentiment applied to one completion.
InitSentiment ==
    /\ linkFile = NoFile
    /\ timeFile = NoFile
    /\ now = 0
    /\ feeds = <<>>
    /\ pc = "sleep"
    /\ last_link = None
    /\ last_time = 0
    /\ new_items = <<>>
    /\ idx = 0
    /\ latest_timestamp = 0
    /\ processed = <<>>
    /\ posted = [l \in Links |-> 0]
    /\ cut = {}
    /\ reply \in Replies
    /\ sentiment = <<>>
    /\ db = <<>>

AnalyzeSentiment ==
    /\ sentiment = <<>>
    /\ sentiment' = <<analyze_sentiment(reply)>>
    /\ UNCHANGED <<linkFile, timeFile, now, feeds, pc, last_link, last_time, new_items,
                   idx, latest_timestamp, processed, posted, cut, reply, db>>

SentimentSpec == InitSentiment /\ [][AnalyzeSentiment]_vars

\* save_news_item: timestamp_utc is <<>> for None, else <<a datetime>>; utcnow
\* is what datetime.utcnow() returns at the call.
save_news_item(currency, sentiment_label, confidence, raw_text, timestamp_utc, utcnow) ==
    LET ts == IF timestamp_utc = <<>> THEN utcnow ELSE timestamp_utc[1]
    IN  db' = Append(db, [timestamp_utc |-> isoformat(ts),
                          session |-> get_session(ts),
                          currency |-> currency,
                          sentiment_label |-> sentiment_label,
                          confidence |-> confidence,
                          raw_text |-> raw_text])

SaveNewsItem ==
    /\ Len(db) < MaxRows
    /\ \E dt \in DateTimes, given \in BOOLEAN :
         save_news_item("USD", "Bullish", 80, "CPI rises",
                        IF given THEN <<dt>> ELSE <<>>, dt)
    /\ UNCHANGED <<linkFile, timeFile, now, feeds, pc, last_link, last_time, new_items,
                   idx, latest_timestamp, processed, posted, cut, reply, sentiment>>

SessionSpec == Init /\ [][SaveNewsItem]_vars

\* The loop of main on the headlines of TitleEntries, with cycles that raise
\* in the fetch and cycles that end inside the loop.  The sleep of line 437
\* ends, and the while True of line 429 then calls fetch_and_post again.
NextLive ==
    \/ StartCycleTitles
    \/ FetchRaisesTitles
    \/ SkipItem
    \/ PostItem
    \/ CycleCutShort
    \/ Sleep

LiveSpec ==
    /\ Init
    /\ [][NextLive]_vars
    /\ WF_vars(Sleep)
    /\ WF_vars(StartCycleTitles \/ FetchRaisesTitles)

-----------------------------------------------------------------------------
(* Vocabulary of the properties *)

InCycle == pc \in {"loop", "returned"}

CycleOver == pc = "returned"

\* The timestamp an item is ordered by: its own, or the fetch time.
published_at(e) == mktime(sort_key(e, now))

\* The cursor as the two load functions read it now.
CursorUnmoved == load_last_posted_link = last_link /\ load_last_time = last_time

Max(S) == CHOOSE x \in S : \A y \in S : y <= x

\* The entries the sources list this cycle, with their place.
Listed == {<<u, i>> : u \in Sources, i \in 1..MaxFeedLen}

IsListed(u, i) == u <= Len(feeds) /\ i <= Len(feeds[u])

-----------------------------------------------------------------------------
(* C1..C10 *)

\* C1: no link is sent to the Telegram sink more than once, over all cycles.
C1_NoDuplicatePublication == \A l \in Links : posted[l] <= 1

\* C2: a cycle whose translations all failed leaves the persisted last link and
\* last timestamp as they were loaded at its start.
C2_CursorKeptOnTranslationFailure ==
    (CycleOver /\ processed # <<>> /\ \A i \in 1..Len(processed) : processed[i].som = "")
        => CursorUnmoved

\* C3: the cursor moves for an item only if send_message returned without error
\* for it: while no send of the cycle has succeeded, both cursor fields read as
\* they did at the start of the cycle.
C3_CursorMovesOnlyAfterEmission ==
    (InCycle /\ SentAt = {}) => CursorUnmoved

\* C4: the persisted watermark never decreases: what a cycle leaves in the time
\* file is at least what it loaded, and a cycle that has written nothing (it is
\* still in its loop, it found no new item, or its fetch raised) leaves the
\* loaded value.
C4_WatermarkNonDecreasing ==
    /\ CycleOver => load_last_time >= last_time
    /\ (pc \in {"loop", "raised"} \/ (CycleOver /\ new_items = <<>>))
           => load_last_time = last_time

C4_Witness ==
    /\ CycleOver
    /\ last_time > 0
    /\ load_last_time > last_time

\* C5: no item whose timestamp is at or before the watermark loaded at the
\* start of the cycle is handed to the sink in that cycle.
C5_NothingAtOrBeforeWatermark ==
    InCycle =>
        \A i \in 1..Len(processed) :
            has(processed[i].e, "published_parsed")
                => mktime(processed[i].e.published_parsed) > last_time

\* A cycle that sent something while a source listed an approved entry at or
\* before the watermark under a link other than the persisted last link.
C5_Witness ==
    /\ CycleOver
    /\ SentAt # {}
    /\ \E p \in Listed :
         /\ IsListed(p[1], p[2])
         /\ LET e == feeds[p[1]][p[2]]
            IN  /\ e \in Approved
                /\ has(e, "published_parsed")
                /\ mktime(e.published_parsed) <= last_time
                /\ e.link # last_link
                /\ \A j \in 1..p[2] : feeds[p[1]][j].link # last_link

\* C6: every listed entry whose timestamp is above the loaded watermark is a
\* candidate of the cycle, wherever it stands in its source's list.
C6_WatermarkDecidesEveryItem ==
    InCycle =>
        \A p \in Listed :
            IsListed(p[1], p[2]) =>
                LET e == feeds[p[1]][p[2]]
                IN  (has(e, "published_parsed") /\ mktime(e.published_parsed) > last_time)
                        => \E k \in 1..Len(new_items) : new_items[k] = e

\* C7: when the fetch of one source raises, the approved new items of the other
\* sources are still handed to the sink in that cycle.
C7_OtherSourcesStillPublished ==
    pc = "raised" =>
        \A k \in 1..Len(new_items) :
            new_items[k] \in Approved
                => \E i \in 1..Len(processed) : processed[i].e = new_items[k]

\* C8: within one cycle the messages go to the sink in non-decreasing order of
\* the items' timestamp, an item without one taking the fetch time.
C8_AscendingWithinCycle ==
    InCycle =>
        \A i, j \in 1..Len(processed) :
            i < j => published_at(processed[i].e) <= published_at(processed[j].e)

\* A cycle that sent two items of different timestamps which the sources listed
\* the other way round.
C8_Witness ==
    /\ CycleOver
    /\ \E i, j \in SentAt :
         /\ i < j
         /\ published_at(processed[i].e) < published_at(processed[j].e)
    /\ new_items # collect(feeds, 1, last_link, last_time)

\* C9: a cycle that processed at least one item leaves in the time file the
\* maximum of the loaded watermark and the timestamps of the items it processed.
C9_WatermarkIsMaximum ==
    (CycleOver /\ processed # <<>>) =>
        load_last_time =
            Max({last_time} \cup
                {mktime(processed[i].e.published_parsed) :
                    i \in {k \in 1..Len(processed) : has(processed[k].e, "published_parsed")}})

\* A cycle that processed items of two different timestamps and then one
\* without a timestamp, so that the last item iterated does not carry the maximum.
C9_Witness ==
    /\ CycleOver
    /\ Len(processed) >= 3
    /\ ~has(processed[Len(processed)].e, "published_parsed")
    /\ \E i, j \in 1..Len(processed) :
         /\ has(processed[i].e, "published_parsed")
         /\ has(processed[j].e, "published_parsed")
         /\ processed[i].e.published_parsed < processed[j].e.published_parsed
    /\ load_last_time > last_time

\* C10: an item whose translation failed is not sent to the output channel.
C10_NoMessageOnTranslationFailure ==
    \A i \in 1..Len(processed) : processed[i].som = "" => ~processed[i].sent

-----------------------------------------------------------------------------
(* C11..C20 *)

\* The entries whose lowercased title names a blocked speaker, Powell, a macro keyword.
BlockedEntries == {e \in AllEntries : is_blocked(lower(title_of(e)))}

PowellEntries == {e \in AllEntries : is_powell(lower(title_of(e)))}

MacroEntries == {e \in AllEntries : is_high_macro(lower(title_of(e)))}

\* C11: a headline that names a blocked speaker is never handed to the
\* translator or the sink, also when it mentions Powell or a macro keyword.
C11_ExclusionFirst ==
    \A i \in 1..Len(processed) : processed[i].e \notin BlockedEntries

\* A finished cycle that met a headline naming both Powell and a blocked
\* speaker, and posted another headline.
C11_Witness ==
    /\ CycleOver
    /\ \E k \in 1..Len(new_items) : new_items[k] \in BlockedEntries \cap PowellEntries
    /\ SentAt # {}

\* C12: every headline that names no blocked speaker and holds a keyword of
\* HIGH_IMPACT_MACRO is processed for publication once it is a candidate.
C12_RelevantIsProcessed ==
    CycleOver =>
        \A k \in 1..Len(new_items) :
            (new_items[k] \in MacroEntries /\ new_items[k] \notin BlockedEntries)
                => \E i \in 1..Len(processed) : processed[i].e = new_items[k]

\* The headlines one message carries: line 401 builds it from the one title of
\* the iteration.
covered(r) == <<r.e>>

\* Seconds between the moment a processed headline passed the filter and its send.
waited(r) == (r.at - r.opened) * SLEEP_SECONDS

\* C13: a clusterable (Powell) headline is never sent to the sink as a message
\* of its own.
C13_ClusterableNotSentAlone ==
    \A i \in SentAt :
        processed[i].e \in PowellEntries => covered(processed[i]) # <<processed[i].e>>

\* C14: a clusterable headline that opened its group alone reaches the sink
\* not before timeBudget has elapsed since it was classified.
C14_NotBeforeTimeBudget ==
    \A i \in SentAt :
        processed[i].e \in PowellEntries => waited(processed[i]) >= timeBudget

C16_OneCycleOneItemAtATime ==
    [][ /\ (now' # now \/ (feeds' # feeds /\ feeds' # <<>>)) => pc = "sleep"
        /\ pc' = "sleep" => pc \in {"returned", "raised"}
        /\ (processed' # processed /\ processed' # <<>>)
              => /\ pc = "loop"
                 /\ processed' = Append(processed, processed'[Len(processed')])
                 /\ processed'[Len(processed')].e = new_items[idx]
                 /\ pc' = "loop" => idx' = idx + 1 ]_vars

\* A later cycle at its second item, the first one processed.
C16_Witness ==
    /\ pc = "loop"
    /\ idx = 2
    /\ Len(processed) = 1
    /\ last_time > 0

\* C17 as stated: when a cycle publishes a further item after a first one, the
\* cursor store still holds what the cycle read at its start.
C17_NoWriteBetweenPublications ==
    [][ (SentAt # {} /\ Cardinality(SentAt') > Cardinality(SentAt))
            => CursorUnmoved ]_vars

\* C17, amended: the locals last_link and last_time are read at the start of a
\* cycle only; the time file is written only by the step that ends the loop, with
\* latest_timestamp; the link file is written only by an iteration that
\* processed an item, with the link of that item.
C17_ReadAtStartTimeWrittenAtEnd ==
    [][ /\ (last_link' # last_link \/ last_time' # last_time)
              => (pc \in {"returned", "raised"} \/ (pc = "sleep" /\ pc' # "sleep"))
        /\ timeFile' # timeFile => (pc = "loop" /\ pc' = "returned")
        /\ (pc = "loop" /\ pc' = "returned")
              => timeFile' = save_last_time(latest_timestamp')
        /\ linkFile' # linkFile
              => /\ pc = "loop"
                 /\ Len(processed') = Len(processed) + 1
                 /\ linkFile' = save_last_posted_link(new_items[idx].link) ]_vars

\* In the loop, after the link file moved, the time file still holding the
\* watermark read at the start although a newer timestamp has been processed.
C17_Witness ==
    /\ pc = "loop"
    /\ processed # <<>>
    /\ load_last_posted_link # last_link
    /\ load_last_time = last_time
    /\ latest_timestamp > last_time

StoreUnreadable ==
    \/ isfile(linkFile) /\ ~readable(linkFile)
    \/ isfile(timeFile) /\ ~readable(timeFile)

\* C18: while the cursor store found unreadable at startup is still unreadable,
\* nothing has been published.
C18_UnreadableStoreHalts == StoreUnreadable => \A l \in Links : posted[l] = 0

\* C19: in every cycle, a listed entry without a timestamp that stands before
\* (or without) the entry whose link is the persisted last link is a candidate,
\* whatever the watermark.
C19_UndatedIsCandidate ==
    InCycle =>
        \A p \in Listed :
            IsListed(p[1], p[2]) =>
                LET e == feeds[p[1]][p[2]]
                IN  (/\ ~has(e, "published_parsed")
                     /\ \A j \in 1..p[2] : feeds[p[1]][j].link # last_link)
                        => \E k \in 1..Len(new_items) : new_items[k] = e

\* A cycle that read a watermark above zero and a last link, and took an entry
\* without a timestamp from a list that also holds entries the watermark drops.
C19_Witness ==
    /\ InCycle
    /\ last_time > 0
    /\ last_link # None
    /\ \E p \in Listed :
         /\ IsListed(p[1], p[2])
         /\ ~has(feeds[p[1]][p[2]], "published_parsed")
         /\ \A j \in 1..p[2] : feeds[p[1]][j].link # last_link
         /\ \E j \in 1..Len(feeds[p[1]]) :
              /\ has(feeds[p[1]][j], "published_parsed")
              /\ mktime(feeds[p[1]][j].published_parsed) <= last_time

\* C20: a finished cycle that had no candidate, or whose candidates were all
\* rejected by the filter, leaves the persisted link and the value of the
\* persisted timestamp as the cycle read them.
C20_CursorKeptWithoutProcessedItem ==
    (CycleOver /\ processed = <<>>) => CursorUnmoved

\* A finished cycle over a stored cursor whose only candidates were rejected,
\* one of them dated above the watermark.
C20_Witness ==
    /\ CycleOver
    /\ processed = <<>>
    /\ last_time > 0
    /\ \E k \in 1..Len(new_items) :
         /\ has(new_items[k], "published_parsed")
         /\ mktime(new_items[k].published_parsed) > last_time

-----------------------------------------------------------------------------
(* C21..C26 *)

\* C21: no dated item sent by a cycle that was cut short before save_last_time
\* is sent again by a later cycle.
C21_NoRepublicationAfterCut ==
    InCycle =>
        \A i \in SentAt :
            has(processed[i].e, "published_parsed") => processed[i].e.link \notin cut

\* The sends for link l that returned in earlier cycles.
sent_before(l) == posted[l] - Cardinality({i \in SentAt : processed[i].e.link = l})

\* C22: in runs whose cycles all reach their return, a dated item sent in one
\* cycle is sent in no later cycle.
C22_DatedItemInOneCycleOnly ==
    InCycle =>
        \A i \in SentAt :
            has(processed[i].e, "published_parsed") => sent_before(processed[i].e.link) = 0

\* A later cycle that sent something while a source lists, under a link other
\* than the persisted last link, a dated entry an earlier cycle has sent.
C22_Witness ==
    /\ InCycle
    /\ SentAt # {}
    /\ \E p \in Listed :
         /\ IsListed(p[1], p[2])
         /\ LET e == feeds[p[1]][p[2]]
            IN  /\ has(e, "published_parsed")
                /\ sent_before(e.link) > 0
                /\ e.link # last_link
                /\ \A j \in 1..p[2] : feeds[p[1]][j].link # last_link

FedEntries == {e \in AllEntries : isSubstring("fed", lower(title_of(e)))}

\* C23: every headline sent to the sink names no blocked speaker, and either
\* mentions Powell or holds a macro keyword and not "fed".
C23_SentSatisfiesFilter ==
    \A i \in SentAt :
        LET e == processed[i].e
        IN  /\ e \notin BlockedEntries
            /\ \/ e \in PowellEntries
               \/ e \in MacroEntries /\ e \notin FedEntries

\* A finished cycle that met a macro headline holding "fed" without Powell and
\* sent a headline holding "fed" with Powell.
C23_Witness ==
    /\ CycleOver
    /\ \E k \in 1..Len(new_items) :
         new_items[k] \in (FedEntries \cap MacroEntries) \ PowellEntries
    /\ \E i \in SentAt : processed[i].e \in FedEntries \cap PowellEntries

\* C24: after every cycle, returned or raised, another cycle begins, as long
\* as the clock of the model has a later value left.
C24_AnotherCycleBegins ==
    \A t \in 0..(MaxNow - 1) :
        (pc \in {"returned", "raised"} /\ now = t) ~> (now > t)

\* A cycle in its loop after an earlier cycle ended inside its loop.
C24_Witness ==
    /\ pc = "loop"
    /\ cut # {}

Tones == {chars("Bullish"), chars("Bearish"), chars("Neutral")}

Horizons ==
    {chars("Intraday"), chars("Short-term"), chars("Medium-term"), chars("Macro"),
     chars("Unknown")}

\* C25: analyze_sentiment returns a tone of Tones, a horizon of Horizons and a
\* confidence in 0..100 for every completion, and (Neutral, Unknown, 50) when
\* the call failed.
C25_SentimentInRange ==
    sentiment # <<>> =>
        LET r == sentiment[1]
        IN  /\ r.tone \in Tones
            /\ r.horiz \in Horizons
            /\ r.conf \in 0..100
            /\ ~reply.ok =>
                 r = [tone |-> chars("Neutral"), horiz |-> chars("Unknown"), conf |-> 50]

\* C26: every row of news_items stands under the session of its own
\* timestamp: Tokyo for the hours 0..7, London for 8..15, New York for 16..23.
C26_SessionOfOwnTimestamp ==
    \A i \in 1..Len(db) :
        LET h == fromisoformat(db[i].timestamp_utc).hour
        IN  /\ h \in 0..7 => db[i].session = "Tokyo"
            /\ h \in 8..15 => db[i].session = "London"
            /\ h \in 16..23 => db[i].session = "New York"
            /\ h \in 0..23

\* Rows saved at the two sides of a session boundary.
C26_Witness ==
    /\ Len(db) = MaxRows
    /\ \E i, j \in 1..Len(db) :
         /\ fromisoformat(db[i].timestamp_utc) = [day |-> 1, hour |-> 7, minute |-> 59]
         /\ fromisoformat(db[j].timestamp_utc) = [day |-> 1, hour |-> 8, minute |-> 0]

====
